---------------------------- MODULE Spec2Model ----------------------------
(***************************************************************************)
(* ProgPoW light verification (ethash/src/progpow.rs).                     *)
(*                                                                         *)
(* A u32 is the pair <<hi, lo>> of its 16-bit halves (TLC's integers are   *)
(* 32-bit signed, so 0x811c9dc5 does not fit in one); a u64 is the pair    *)
(* <<high u32, low u32>>.  All arithmetic wraps as the Rust code's         *)
(* wrapping_* operations do.                                               *)
(***************************************************************************)
EXTENDS Integers, Sequences, FiniteSets, TLC

(***************************************************************************)
(* run, runB   activations of progpow_light (runB: a second call, whose    *)
(*             inputs differ from run's in the block number only)          *)
(* pass        one pass of the lane loop of progpow_loop, step by step     *)
(* loop        one call of progpow_loop whose lane passes are interleaved  *)
(* kec         one call of keccak_f800_short or keccak_f800_long, round by *)
(*             round, with a twin state fed a second result array          *)
(***************************************************************************)
VARIABLES run, runB, pass, loop, kec

vars == <<run, runB, pass, loop, kec>>

\* the function g as an explicit table (a function constructor is otherwise
\* evaluated anew at every application)
Eval(g) == g @@ <<>>

\* F applied to v, with v evaluated first and once (an argument is otherwise
\* evaluated only when it is used, and a long chain of pending arguments
\* exhausts the evaluator's stack)
With(v, F(_)) == CASE v = v -> F(v)

\* for i in lo..hi: x = F(x, i), the range being split in halves to keep the
\* evaluation shallow
RECURSIVE ForRange(_, _, _, _)
ForRange(F(_, _), x, lo, hi) ==
    IF hi <= lo THEN x
    ELSE IF hi = lo + 1 THEN F(x, lo)
    ELSE With(ForRange(F, x, lo, (lo + hi) \div 2), LAMBDA a :
             ForRange(F, a, (lo + hi) \div 2, hi))

(***************************************************************************)
(* u32 arithmetic                                                          *)
(***************************************************************************)
H16 == 2^16

\* bit k of a byte
Bit(x, k) == (x \div 2^k) % 2

\* a & b on bytes
And8(a, b) ==
    Bit(a, 0) * Bit(b, 0) + 2 * Bit(a, 1) * Bit(b, 1) + 4 * Bit(a, 2) * Bit(b, 2)
    + 8 * Bit(a, 3) * Bit(b, 3) + 16 * Bit(a, 4) * Bit(b, 4) + 32 * Bit(a, 5) * Bit(b, 5)
    + 64 * Bit(a, 6) * Bit(b, 6) + 128 * Bit(a, 7) * Bit(b, 7)

\* And8 tabulated once, as a sequence of sequences (index = byte + 1)
AndB == <<>> \o [a \in 1..256 |-> <<>> \o [b \in 1..256 |-> And8(a - 1, b - 1)]]

Pow2(n) == 2^n

and16(a, b) == AndB[a \div 256 + 1][b \div 256 + 1] * 256 + AndB[(a % 256) + 1][(b % 256) + 1]
xor16(a, b) == a + b - 2 * and16(a, b)
or16(a, b) == a + b - and16(a, b)

U32(n) == <<n \div H16, n % H16>>
ZERO == <<0, 0>>

and32(a, b) == <<and16(a[1], b[1]), and16(a[2], b[2])>>
or32(a, b) == <<or16(a[1], b[1]), or16(a[2], b[2])>>
xor32(a, b) == <<xor16(a[1], b[1]), xor16(a[2], b[2])>>
not32(a) == <<65535 - a[1], 65535 - a[2]>>

\* a.wrapping_add(b)
add32(a, b) ==
    LET lo == a[2] + b[2]
    IN  <<(a[1] + b[1] + lo \div H16) % H16, lo % H16>>

\* the full 32-bit product of two 16-bit halves, as <<hi, lo>>
Mul16(x, y) ==
    LET x1 == x \div 256
        x0 == x % 256
        y1 == y \div 256
        y0 == y % 256
        mid == x1 * y0 + x0 * y1
        low == x0 * y0 + (mid % 256) * 256
    IN  <<x1 * y1 + mid \div 256 + low \div H16, low % H16>>

\* a.wrapping_mul(b)
mul32(a, b) ==
    LET p == Mul16(a[2], b[2])
    IN  <<(p[1] + Mul16(a[1], b[2])[2] + Mul16(a[2], b[1])[2]) % H16, p[2]>>

\* ((a as u64).wrapping_mul(b as u64) >> 32) as u32
mulhi32(a, b) ==
    LET ll == Mul16(a[2], b[2])
        lh == Mul16(a[2], b[1])
        hl == Mul16(a[1], b[2])
        hh == Mul16(a[1], b[1])
        c1 == ll[1] + lh[2] + hl[2]
        c2 == c1 \div H16 + lh[1] + hl[1] + hh[2]
    IN  <<(c2 \div H16 + hh[1]) % H16, c2 % H16>>

\* a << n, a >> n and the rotations, for 0 <= n < 32
rotl32(a, n) ==
    LET b == IF n >= 16 THEN <<a[2], a[1]>> ELSE a
        k == n % 16
    IN  <<(b[1] % Pow2(16 - k)) * Pow2(k) + b[2] \div Pow2(16 - k),
          (b[2] % Pow2(16 - k)) * Pow2(k) + b[1] \div Pow2(16 - k)>>

rotr32(a, n) == rotl32(a, (32 - n) % 32)

shl32(a, n) ==
    IF n >= 16 THEN <<(a[2] % Pow2(32 - n)) * Pow2(n - 16), 0>>
    ELSE <<(a[1] % Pow2(16 - n)) * Pow2(n) + a[2] \div Pow2(16 - n),
           (a[2] % Pow2(16 - n)) * Pow2(n)>>

shr32(a, n) ==
    IF n >= 16 THEN <<0, a[1] \div Pow2(n - 16)>>
    ELSE <<a[1] \div Pow2(n),
           (a[1] % Pow2(n)) * Pow2(16 - n) + a[2] \div Pow2(n)>>

\* x % d for a divisor 0 < d < 2^15
mod32(a, d) == ((a[1] % d) * (H16 % d) + a[2]) % d

lt32(a, b) == a[1] < b[1] \/ (a[1] = b[1] /\ a[2] < b[2])
min32(a, b) == IF lt32(b, a) THEN b ELSE a

RECURSIVE Ones(_)
Ones(x) == IF x = 0 THEN 0 ELSE (x % 2) + Ones(x \div 2)

RECURSIVE BitLen(_)
BitLen(x) == IF x = 0 THEN 0 ELSE 1 + BitLen(x \div 2)

count_ones(a) == Ones(a[1]) + Ones(a[2])
leading_zeros(a) == IF a[1] # 0 THEN 16 - BitLen(a[1]) ELSE 32 - BitLen(a[2])

(***************************************************************************)
(* FNV-1a and KISS99                                                       *)
(***************************************************************************)
FNV_PRIME == <<256, 403>>        \* 0x01000193
FNV_HASH == <<33052, 40389>>     \* 0x811c9dc5

\* fnv1a_hash: the new accumulator, which is also the value returned
fnv1a_hash(h, d) == mul32(xor32(h, d), FNV_PRIME)

Kiss99(z, w, jsr, jcong) == [z |-> z, w |-> w, jsr |-> jsr, jcong |-> jcong]

\* lines 51-52: c.wrapping_mul(x & 65535).wrapping_add(x >> 16)
Mwc(c, x) == add32(mul32(U32(c), <<0, x[2]>>), <<0, x[1]>>)

\* x ^ (x << sh) and x ^ (x >> sh), lines 54-56
XorShl(x, sh) == xor32(x, shl32(x, sh))
XorShr(x, sh) == xor32(x, shr32(x, sh))

\* lines 53 and 59, from the four updated words
KissOut(z, w, jsr, jcong) ==
    [rnd |-> Kiss99(z, w, jsr, jcong),
     val |-> add32(xor32(add32(<<z[2], 0>>, w), jcong), jsr)]

\* next_u32: the generator after the draw, and the value drawn
next_u32(k) ==
    KissOut(Mwc(36969, k.z), Mwc(18000, k.w),
            XorShl(XorShr(XorShl(k.jsr, 17), 13), 5),
            add32(mul32(U32(69069), k.jcong), U32(1234567)))

\* the four chained FNV outputs seeding a generator
FnvSeeded(a, b, c, d) ==
    With(fnv1a_hash(FNV_HASH, a), LAMBDA h1 :
    With(fnv1a_hash(h1, b), LAMBDA h2 :
    With(fnv1a_hash(h2, c), LAMBDA h3 :
        Kiss99(h1, h2, h3, fnv1a_hash(h3, d)))))

(***************************************************************************)
(* Program constants                                                       *)
(***************************************************************************)
PROGPOW_LANES == 32
PROGPOW_REGS == 16
PROGPOW_CACHE_WORDS == 4096
PROGPOW_CNT_MEM == 64
PROGPOW_CNT_CACHE == 8
PROGPOW_CNT_MATH == 8
PROGPOW_MIX_BYTES == 256
ETHASH_EPOCH_LENGTH == 30000

Max(a, b) == IF a > b THEN a ELSE b

\* line 76: register i, c being the generator and the registers so far
FillReg(c, i) ==
    With(next_u32(c.rnd), LAMBDA d : [rnd |-> d.rnd, mix |-> [c.mix EXCEPT ![i] = d.val]])

\* fill_mix(seed, lane_id): the 16 registers of one lane, as a function on 0..15
fill_mix(seed, lane_id) ==
    ForRange(FillReg,
             [rnd |-> FnvSeeded(seed[2], seed[1], U32(lane_id), U32(lane_id)),
              mix |-> Eval([i \in 0..(PROGPOW_REGS - 1) |-> ZERO])],
             0, PROGPOW_REGS).mix

\* progpow_init, lines 83-96: the generator and the identity sequence
InitRnd(seed) == FnvSeeded(seed[2], seed[1], seed[2], seed[1])
InitSeq == Eval([i \in 0..(PROGPOW_REGS - 1) |-> i])

\* an assignment of seq[j] to seq[i] that loses the old seq[i]
SwapOneWay(seq, i, j) == [seq EXCEPT ![i] = seq[j]]

\* mix_seq.swap(i, j)
Swap(seq, i, j) == [seq EXCEPT ![i] = seq[j], ![j] = seq[i]]

\* the index j drawn at line 98
SwapIndex(v, i) == mod32(v, i + 1)

\* merge(a, b, r): the new value of *a
merge(a, b, r) ==
    CASE r[2] % 4 = 0 -> add32(mul32(a, U32(33)), b)
      [] r[2] % 4 = 1 -> mul32(xor32(a, b), U32(33))
      [] r[2] % 4 = 2 -> xor32(rotl32(a, r[1] % 32), b)
      [] r[2] % 4 = 3 -> xor32(rotr32(a, r[1] % 32), b)

math(a, b, r) ==
    LET k == mod32(r, 11)
    IN  CASE k = 0 -> add32(a, b)
          [] k = 1 -> mul32(a, b)
          [] k = 2 -> mulhi32(a, b)
          [] k = 3 -> min32(a, b)
          [] k = 4 -> rotl32(a, b[2] % 32)
          [] k = 5 -> rotr32(a, b[2] % 32)
          [] k = 6 -> and32(a, b)
          [] k = 7 -> or32(a, b)
          [] k = 8 -> xor32(a, b)
          [] k = 9 -> U32(leading_zeros(a) + leading_zeros(b))
          [] k = 10 -> U32(count_ones(a) + count_ones(b))

(***************************************************************************)
(* The light DAG.  calculate_dag_item lives in compute.rs, outside this    *)
(* file; progpow.rs only needs it to be a total function of (item, cache), *)
(* returning a node of 16 little-endian words.  A cache is named by a      *)
(* small number and the node's words are a fixed hash of (cache, item,     *)
(* word).                                                                  *)
(***************************************************************************)
DagWord(item, w, cache) ==
    fnv1a_hash(fnv1a_hash(fnv1a_hash(FNV_HASH, U32(cache)), U32(item)), U32(w))

calculate_dag_item(item, cache) == [w \in 0..15 |-> DagWord(item, w, cache)]

\* the item a lookup consults
LookupItem(index) == index \div 16

\* the closure lookup of progpow_light
lookup(index, cache) == calculate_dag_item(LookupItem(index), cache)[index % 16]

(***************************************************************************)
(* One lane pass of progpow_loop (the body of the loop at line 147).       *)
(* The local state of a pass is a record                                   *)
(*   pc, i        the position in the body and the loop variable           *)
(*   rnd          the Kiss99 instance                                      *)
(*   mix_seq      the destination sequence, mix_seq_cnt its cursor         *)
(*   log          the purpose and value of every next_u32 so far, in order *)
(*   dsts         the index into mix_seq of every mix_dst() so far         *)
(*   writes       the register of mix[l] every merge so far has written    *)
(***************************************************************************)
PassStart ==
    [pc |-> "init", i |-> 0, rnd |-> Kiss99(ZERO, ZERO, ZERO, ZERO),
     mix_seq |-> InitSeq, mix_seq_cnt |-> 0, log |-> <<>>, dsts |-> <<>>,
     writes |-> <<>>]

\* rnd.next_u32(), drawn for `role`
Draw(s, role) ==
    With(next_u32(s.rnd), LAMBDA d :
        [s |-> [s EXCEPT !.rnd = d.rnd,
                         !.log = Append(@, [role |-> role, val |-> d.val])],
         val |-> d.val])

\* the closure mix_src
mix_src(s, role) ==
    With(Draw(s, role), LAMBDA d : [s |-> d.s, val |-> d.val[2] % PROGPOW_REGS])

\* the closure mix_dst
mix_dst(s) ==
    [s |-> [s EXCEPT !.mix_seq_cnt = @ + 1,
                     !.dsts = Append(@, s.mix_seq_cnt % PROGPOW_REGS)],
     val |-> s.mix_seq[s.mix_seq_cnt % PROGPOW_REGS]]

\* the position reached when iteration i of the loop at line 162 is to start
LoopHead(i) ==
    IF i >= Max(PROGPOW_CNT_CACHE, PROGPOW_CNT_MATH) THEN [pc |-> "lo", i |-> i]
    ELSE IF i < PROGPOW_CNT_CACHE THEN [pc |-> "cache", i |-> i]
    ELSE [pc |-> "math", i |-> i]

Goto(s, at) == [s EXCEPT !.pc = at.pc, !.i = at.i]

\* the pass state after a merge into register reg, continuing at `at`
Merged(s, reg, at) == [s EXCEPT !.writes = Append(@, reg), !.pc = at.pc, !.i = at.i]

\* lines 83-96 of progpow_init: seed the generator, identity sequence
InitBegin(s, seed) ==
    [s EXCEPT !.rnd = InitRnd(seed), !.mix_seq = InitSeq, !.mix_seq_cnt = 0,
              !.pc = "fy", !.i = PROGPOW_REGS - 1]

\* one iteration of the Fisher-Yates loop, lines 97-100
FYStep(s) ==
    With(Draw(s, "fy"), LAMBDA d :
    With(SwapIndex(d.val, s.i), LAMBDA j :
    With([d.s EXCEPT !.mix_seq = Swap(@, s.i, j)], LAMBDA t :
        IF s.i = 0 THEN Goto(t, LoopHead(0)) ELSE [t EXCEPT !.i = s.i - 1])))

\* the row of lane 0, whatever the lane
SrcRowZero(mix, l) == mix[0]

\* the row a lane pass reads its sources from: mix[l]
SrcRow(mix, l) == mix[l]

\* lines 166-168: cached memory access
AfterCache(i) ==
    IF i < PROGPOW_CNT_MATH THEN [pc |-> "math", i |-> i] ELSE LoopHead(i + 1)

CacheStep(mix, l, s, c_dag) ==
    With(mix_src(s, "src"), LAMBDA a :
    With(SrcRow(mix, l)[a.val][2] % PROGPOW_CACHE_WORDS, LAMBDA offset :
    With(c_dag[offset], LAMBDA data32 :
    With(mix_dst(a.s), LAMBDA b :
    With(Draw(b.s, "r"), LAMBDA c :
        [mix |-> [mix EXCEPT ![l][b.val] = merge(@, data32, c.val)],
         s |-> Merged(c.s, b.val, AfterCache(s.i))])))))

\* random math with the selector of math drawn before its two sources
MathStepSelFirst(mix, l, s) ==
    With(Draw(s, "sel"), LAMBDA c :
    With(mix_src(c.s, "src1"), LAMBDA a :
    With(mix_src(a.s, "src2"), LAMBDA b :
    With(math(SrcRow(mix, l)[a.val], SrcRow(mix, l)[b.val], c.val), LAMBDA data32 :
    With(mix_dst(b.s), LAMBDA d :
    With(Draw(d.s, "r"), LAMBDA e :
        [mix |-> [mix EXCEPT ![l][d.val] = merge(@, data32, e.val)],
         s |-> Merged(e.s, d.val, LoopHead(s.i + 1))]))))))

\* lines 172-173: random math
MathStep(mix, l, s) ==
    With(mix_src(s, "src1"), LAMBDA a :
    With(mix_src(a.s, "src2"), LAMBDA b :
    With(Draw(b.s, "sel"), LAMBDA c :
    With(math(SrcRow(mix, l)[a.val], SrcRow(mix, l)[b.val], c.val), LAMBDA data32 :
    With(mix_dst(c.s), LAMBDA d :
    With(Draw(d.s, "r"), LAMBDA e :
        [mix |-> [mix EXCEPT ![l][d.val] = merge(@, data32, e.val)],
         s |-> Merged(e.s, d.val, LoopHead(s.i + 1))]))))))

\* the low half of the global load into the next destination of mix_seq
FinalLoDst(mix, l, s, data64) ==
    With(mix_dst(s), LAMBDA d :
    With(Draw(d.s, "lo"), LAMBDA c :
        [mix |-> [mix EXCEPT ![l][d.val] = merge(@, data64[2], c.val)],
         s |-> Merged(c.s, d.val, [pc |-> "hi", i |-> s.i])]))

\* line 179: the low half of the global load into register 0
FinalLo(mix, l, s, data64) ==
    With(Draw(s, "lo"), LAMBDA c :
        [mix |-> [mix EXCEPT ![l][0] = merge(@, data64[2], c.val)],
         s |-> Merged(c.s, 0, [pc |-> "hi", i |-> s.i])])

\* line 180: the high half into the next destination
FinalHi(mix, l, s, data64) ==
    With(mix_dst(s), LAMBDA d :
    With(Draw(d.s, "hi"), LAMBDA c :
        [mix |-> [mix EXCEPT ![l][d.val] = merge(@, data64[1], c.val)],
         s |-> Merged(c.s, d.val, [pc |-> "done", i |-> s.i])]))

\* one step of the pass for lane l, from the position s.pc
LaneStep(mix, l, s, seed, c_dag, data64) ==
    CASE s.pc = "init" -> [mix |-> mix, s |-> InitBegin(s, seed)]
      [] s.pc = "fy" -> [mix |-> mix, s |-> FYStep(s)]
      [] s.pc = "cache" -> CacheStep(mix, l, s, c_dag)
      [] s.pc = "math" -> MathStep(mix, l, s)
      [] s.pc = "lo" -> FinalLo(mix, l, s, data64)
      [] s.pc = "hi" -> FinalHi(mix, l, s, data64)

\* line 150: the 64-bit global load of lane l, as <<high word, low word>>
Data64(offset_g, l, cache) ==
    <<lookup(2 * (offset_g + l) + 1, cache), lookup(2 * (offset_g + l), cache)>>

\* lines 144-145, for data_size > 0
OffsetG(mix, loopp, data_size) ==
    mod32(mix[loopp % PROGPOW_LANES][0], data_size) * PROGPOW_LANES

\* progpow_init(seed) as one call: the pass state when it returns
progpow_init(s, seed) ==
    ForRange(LAMBDA t, x : FYStep(t), InitBegin(s, seed), 0, PROGPOW_REGS)

\* lines 163-174: iteration i of the loop at line 162
PassIter(c, i, l, c_dag) ==
    With(IF i < PROGPOW_CNT_CACHE THEN CacheStep(c.mix, l, c.s, c_dag) ELSE c, LAMBDA a :
        IF i < PROGPOW_CNT_MATH THEN MathStep(a.mix, l, a.s) ELSE a)

\* lines 150-180, the whole pass of lane l: the mix it leaves
LanePassOn(c, l, c_dag, data64) ==
    With(ForRange(LAMBDA a, i : PassIter(a, i, l, c_dag), c, 0,
                  Max(PROGPOW_CNT_CACHE, PROGPOW_CNT_MATH)), LAMBDA a :
    With(FinalLo(a.mix, l, a.s, data64), LAMBDA b :
        FinalHi(b.mix, l, b.s, data64).mix))

LanePass(mix, l, seed, c_dag, offset_g, cache) ==
    LanePassOn([mix |-> mix, s |-> progpow_init(PassStart, seed)], l, c_dag,
               Data64(offset_g, l, cache))

(***************************************************************************)
(* Keccak-f800.  The state st is a function on 0..24; a header hash is a   *)
(* function on 0..31 giving bytes.                                         *)
(***************************************************************************)
KECCAKF_RNDC ==
    << <<0, 1>>, <<0, 32898>>, <<0, 32906>>, <<32768, 32768>>, <<0, 32907>>, <<32768, 1>>,
       <<32768, 32897>>, <<0, 32777>>, <<0, 138>>, <<0, 136>>, <<32768, 32777>>, <<32768, 10>>,
       <<32768, 32907>>, <<0, 139>>, <<0, 32905>>, <<0, 32771>>, <<0, 32770>>, <<0, 128>>,
       <<0, 32778>>, <<32768, 10>>, <<32768, 32897>>, <<0, 32896>>, <<32768, 1>>, <<32768, 32776>> >>

keccakf_rotc ==
    <<1, 3, 6, 10, 15, 21, 28, 36, 45, 55, 2, 14,
      27, 41, 56, 8, 25, 43, 62, 18, 39, 61, 20, 44>>

keccakf_piln ==
    <<10, 7, 11, 17, 18, 3, 5, 16, 8, 21, 24, 4,
      15, 23, 19, 13, 12, 2, 20, 14, 22, 9, 6, 1>>

\* the constant read by round r (the tables above are sequences: entry r is at r + 1)
RoundConstant(r) == KECCAKF_RNDC[r + 1]

\* lines 202-212
Theta(st) ==
    With(Eval([i \in 0..4 |->
             xor32(xor32(xor32(st[i], st[i + 5]), xor32(st[i + 10], st[i + 15])),
                   st[i + 20])]), LAMBDA bc :
    With(Eval([i \in 0..4 |-> xor32(bc[(i + 4) % 5], rotl32(bc[(i + 1) % 5], 1))]), LAMBDA t :
        Eval([x \in 0..24 |-> xor32(st[x], t[x % 5])])))

\* lines 217-220: iteration i, c.t being the word carried
RhoPiStep(c, i) ==
    With(keccakf_piln[i + 1], LAMBDA j :
        [st |-> [c.st EXCEPT ![j] = rotl32(c.t, keccakf_rotc[i + 1] % 32)], t |-> c.st[j]])

\* lines 215-221
RhoPi(st) == ForRange(RhoPiStep, [st |-> st, t |-> st[1]], 0, Len(keccakf_rotc)).st

\* lines 224-231
Chi(st) ==
    Eval([x \in 0..24 |->
        LET j == x - (x % 5)
            i == x % 5
        IN  xor32(st[x], and32(not32(st[j + ((i + 1) % 5)]), st[j + ((i + 2) % 5)]))])

keccak_f800_round(st, r) ==
    [Chi(RhoPi(Theta(st))) EXCEPT ![0] = xor32(@, RoundConstant(r))]

\* the little-endian load of lines 241-244
LoadLE(header_hash, i) ==
    <<header_hash[4 * i + 3] * 256 + header_hash[4 * i + 2],
      header_hash[4 * i + 1] * 256 + header_hash[4 * i]>>

\* all eight result words
ALL_RESULT_WORDS == 4 + 4

\* the number of result words the loops at lines 250 and 275 copy into the state
RESULT_WORDS == 4

\* lines 238-252 and 263-277: the state before the first round
KeccakState(header_hash, nonce, result) ==
    Eval([x \in 0..24 |->
        IF x < 8 THEN LoadLE(header_hash, x)
        ELSE IF x = 8 THEN nonce[2]
        ELSE IF x = 9 THEN nonce[1]
        ELSE IF x < 10 + RESULT_WORDS THEN result[x - 10]
        ELSE ZERO])

\* a loop `for r in 0..22`
ROUND_LOOP_END_INCLUSIVE == 21 + 1

\* `for r in 0..21` (lines 254, 279)
ROUND_LOOP_END == 21

\* the round after the loop (lines 257, 282)
LAST_ROUND == 21

KeccakRounds(st) ==
    keccak_f800_round(ForRange(keccak_f800_round, st, 0, ROUND_LOOP_END), LAST_ROUND)

ShortOut(st) == <<st[0], st[1]>>

\* byte k of a word in memory, on a little-endian host
ByteOf(w, k) ==
    CASE k = 0 -> w[2] % 256
      [] k = 1 -> w[2] \div 256
      [] k = 2 -> w[1] % 256
      [] k = 3 -> w[1] \div 256

\* transmute::<[u32; 8], [u8; 32]>
Bytes32(words) == Eval([b \in 0..31 |-> ByteOf(words[b \div 4], b % 4)])

LongOut(st) == Bytes32(Eval([i \in 0..7 |-> st[i]]))

keccak_f800_short(header_hash, nonce, result) ==
    ShortOut(KeccakRounds(KeccakState(header_hash, nonce, result)))

keccak_f800_long(header_hash, nonce, result) ==
    LongOut(KeccakRounds(KeccakState(header_hash, nonce, result)))

(***************************************************************************)
(* progpow_light.  An activation is a record of the parameters, the locals *)
(* and the position pc; offset_g and l are the locals of the progpow_loop  *)
(* call in progress.  Three fields only remember what was passed:          *)
(*   items       the DAG items the priming loop asked calculate_dag_item   *)
(*   loop_seed   the seed argument of the progpow_loop call in progress    *)
(*   long_nonce  the nonce argument of keccak_f800_long                    *)
(***************************************************************************)
Min(a, b) == IF a < b THEN a ELSE b

\* a u64 below 2^31
U64(x) == <<ZERO, U32(x)>>

\* the model runs the first MaxLoops of the PROGPOW_CNT_MEM iterations of the
\* loop at line 319
MaxLoops == 2
MemIters == Min(PROGPOW_CNT_MEM, MaxLoops)

Zeros(len) == Eval([x \in 0..(len - 1) |-> ZERO])

\* word m of the DAG for c_dag[m]
PrimeIndexDirect(m) == m

\* lines 307-310: the word of the DAG that primes c_dag[m]
PrimeIndex(m) == IF m % 2 = 0 THEN 2 * m ELSE 2 * (m - 1) + 1

\* lines 296-300: the activation on entry
NewRun(header_hash, nonce, size, block_number, cache) ==
    [pc |-> "prime", header_hash |-> header_hash, nonce |-> nonce, size |-> size,
     block_number |-> block_number, cache |-> cache,
     mix |-> Eval([x \in 0..(PROGPOW_LANES - 1) |-> Zeros(PROGPOW_REGS)]),
     lane_results |-> Zeros(PROGPOW_LANES),
     c_dag |-> Zeros(PROGPOW_CACHE_WORDS),
     result |-> Zeros(8),
     seed |-> <<ZERO, ZERO>>, block_number_rounded |-> 0, i |-> 0, l |-> 0, offset_g |-> 0,
     items |-> {}, loop_seed |-> <<ZERO, ZERO>>, long_nonce |-> <<ZERO, ZERO>>,
     digest |-> <<>>, result_bytes |-> <<>>]

\* lines 307-310
PrimedDag(cache) ==
    Eval([m \in 0..(PROGPOW_CACHE_WORDS - 1) |-> lookup(PrimeIndex(m), cache)])

\* lines 314-316
FilledMix(seed) == Eval([x \in 0..(PROGPOW_LANES - 1) |-> fill_mix(seed, x)])

PrimeStep(r) ==
    [r EXCEPT !.c_dag = PrimedDag(r.cache),
              !.items = {LookupItem(PrimeIndex(m)) : m \in 0..(PROGPOW_CACHE_WORDS - 1)},
              !.pc = "seed"]

\* line 313
SeedStep(r) ==
    [r EXCEPT !.seed = keccak_f800_short(r.header_hash, r.nonce, r.result),
              !.pc = "fill"]

\* the seed handed to fill_mix at line 315
FillSeed(r) == r.seed

FillStep(r) == [r EXCEPT !.mix = FilledMix(FillSeed(r)), !.pc = "epoch"]

\* the block number, not rounded
BlockNumberItself(block_number) == block_number

\* line 318
BlockNumberRounded(block_number) ==
    (block_number \div ETHASH_EPOCH_LENGTH) * ETHASH_EPOCH_LENGTH

EpochStep(r) ==
    [r EXCEPT !.block_number_rounded = BlockNumberRounded(r.block_number),
              !.i = 0, !.pc = "loop"]

\* the seed argument of progpow_loop at line 321
LoopSeed(r) == U64(r.block_number_rounded)

\* the data_size argument at line 326
DataSize(r) == r.size \div PROGPOW_MIX_BYTES

\* lines 319-327 and 144-145: the next call of progpow_loop, up to its lane loop;
\* `% data_size` panics when data_size is 0
LoopStep(r) ==
    IF r.i >= MemIters THEN [r EXCEPT !.pc = "reduce"]
    ELSE IF DataSize(r) = 0 THEN [r EXCEPT !.loop_seed = LoopSeed(r), !.pc = "panic"]
    ELSE [r EXCEPT !.loop_seed = LoopSeed(r),
                   !.offset_g = OffsetG(r.mix, r.i, DataSize(r)),
                   !.l = 0, !.pc = "lane"]

\* lines 147-181: the pass of lane l; after the last lane progpow_loop returns
LaneStepOf(r) ==
    With(LanePass(r.mix, r.l, r.loop_seed, r.c_dag, r.offset_g, r.cache), LAMBDA m :
        IF r.l + 1 < PROGPOW_LANES THEN [r EXCEPT !.mix = m, !.l = r.l + 1]
        ELSE [r EXCEPT !.mix = m, !.l = 0, !.i = r.i + 1, !.pc = "loop"])

\* lines 331-334 for one lane
LaneResult(row) ==
    ForRange(LAMBDA h, i : fnv1a_hash(h, row[i]), FNV_HASH, 0, PROGPOW_REGS)

\* lines 330-335
ReduceStep(r) ==
    [r EXCEPT !.lane_results = Eval([x \in 0..(PROGPOW_LANES - 1) |-> LaneResult(r.mix[x])]),
              !.pc = "fold"]

\* lines 338-341
FoldResult(lane_results) ==
    ForRange(LAMBDA res, l : [res EXCEPT ![l % 8] = fnv1a_hash(@, lane_results[l])],
             Eval([x \in 0..7 |-> FNV_HASH]), 0, PROGPOW_LANES)

FoldStep(r) == [r EXCEPT !.result = FoldResult(r.lane_results), !.pc = "digest"]

\* the block nonce
DigestBlockNonce(r) == r.nonce

\* the nonce argument of keccak_f800_long at line 343
DigestNonce(r) == r.seed

\* lines 343-347
DigestStep(r) ==
    [r EXCEPT !.long_nonce = DigestNonce(r),
              !.digest = keccak_f800_long(r.header_hash, DigestNonce(r), r.result),
              !.result_bytes = Bytes32(r.result),
              !.pc = "done"]

\* the step of an activation at its position
RunStep(r) ==
    CASE r.pc = "prime" -> PrimeStep(r)
      [] r.pc = "seed" -> SeedStep(r)
      [] r.pc = "fill" -> FillStep(r)
      [] r.pc = "epoch" -> EpochStep(r)
      [] r.pc = "loop" -> LoopStep(r)
      [] r.pc = "lane" -> LaneStepOf(r)
      [] r.pc = "reduce" -> ReduceStep(r)
      [] r.pc = "fold" -> FoldStep(r)
      [] r.pc = "digest" -> DigestStep(r)

Running(r) == r.pc \notin {"done", "panic", "idle"}

(***************************************************************************)
(* Inputs                                                                  *)
(***************************************************************************)
MaxBlk == 2
MaxSz == 1

\* the header hash of test::it_works
Headers == {Eval([b \in 0..31 |-> b])}

\* the nonce of test::it_works (0x2571e4e6edfa3d8a), and 1
Nonces == {<<<<9585, 58598>>, <<60922, 15754>>>>, <<ZERO, <<0, 1>>>>}

\* block numbers 0, 19999, 39998, ...: the first two share an epoch
BlockNumbers == {19999 * x : x \in 0..MaxBlk}

\* dataset sizes 0 and 255 (data_size 0), and 512, 1024, ... (data_size 2, 4, ...)
Sizes == {0, 255} \cup {512 * x : x \in 1..MaxSz}

Caches == {1}

Idle == [pc |-> "idle"]

(***************************************************************************)
(* Spec: one call of progpow_light                                         *)
(***************************************************************************)
Init ==
    /\ \E h \in Headers, n \in Nonces, sz \in Sizes, bn \in BlockNumbers, c \in Caches :
           run = NewRun(h, n, sz, bn, c)
    /\ runB = Idle
    /\ pass = Idle
    /\ loop = Idle
    /\ kec = Idle

Prime == run.pc = "prime" /\ run' = PrimeStep(run) /\ UNCHANGED <<runB, pass, loop, kec>>
Seed == run.pc = "seed" /\ run' = SeedStep(run) /\ UNCHANGED <<runB, pass, loop, kec>>
Fill == run.pc = "fill" /\ run' = FillStep(run) /\ UNCHANGED <<runB, pass, loop, kec>>
Epoch == run.pc = "epoch" /\ run' = EpochStep(run) /\ UNCHANGED <<runB, pass, loop, kec>>
Loop == run.pc = "loop" /\ run' = LoopStep(run) /\ UNCHANGED <<runB, pass, loop, kec>>
Lane == run.pc = "lane" /\ run' = LaneStepOf(run) /\ UNCHANGED <<runB, pass, loop, kec>>
Reduce == run.pc = "reduce" /\ run' = ReduceStep(run) /\ UNCHANGED <<runB, pass, loop, kec>>
Fold == run.pc = "fold" /\ run' = FoldStep(run) /\ UNCHANGED <<runB, pass, loop, kec>>
Digest == run.pc = "digest" /\ run' = DigestStep(run) /\ UNCHANGED <<runB, pass, loop, kec>>

Next == Prime \/ Seed \/ Fill \/ Epoch \/ Loop \/ Lane \/ Reduce \/ Fold \/ Digest

Spec == Init /\ [][Next]_vars

\* C1: for every input progpow_light runs to completion without an error in
\* the core: every `%` reduction, `% data_size` with
\* data_size = dataset_size_bytes / 256 included, is defined
C1_NoError == run.pc # "panic"

\* C6 (as the code has it): while priming c_dag, progpow_light calls
\* calculate_dag_item with item indices below 2 * CACHE_WORDS / 16 = 512
\* only, and reaches item 511
C6_PrimingItemsBelow512 ==
    /\ \A x \in run.items : x < 512
    /\ run.pc # "prime" => 511 \in run.items

\* C6 as stated: every item index the priming loop consults is below
\* CACHE_WORDS / 16 = 256
C6_PrimingItemsBelow256 == \A x \in run.items : x < 256

\* priming has finished and consulted items beyond 255
C6_Primed ==
    /\ run.pc = "seed"
    /\ run.items = 0..511
    /\ run.c_dag[PROGPOW_CACHE_WORDS - 1] = lookup(8189, run.cache)

\* C4: seed = keccak_f800_short(header_hash, nonce, zeros) fills the initial
\* mix (fill_mix(seed, l) for every lane l) and is the nonce argument of the
\* final keccak_f800_long(header_hash, seed, result); the block nonce enters
\* the first Keccak only; every progpow_loop call receives epoch_start, not
\* the seed; the pair returned is that digest and the little-endian bytes of
\* the eight result words
C4_SeedFlow ==
    /\ run.pc \notin {"prime", "seed"} =>
           run.seed = keccak_f800_short(run.header_hash, run.nonce, Zeros(8))
    /\ run.pc = "epoch" =>
           \A l \in 0..(PROGPOW_LANES - 1) : run.mix[l] = fill_mix(run.seed, l)
    /\ run.pc \in {"lane", "panic"} =>
           /\ run.loop_seed =
                  U64((run.block_number \div ETHASH_EPOCH_LENGTH) * ETHASH_EPOCH_LENGTH)
           /\ run.loop_seed # run.seed
    /\ run.pc = "done" =>
           /\ run.long_nonce = run.seed
           /\ run.long_nonce # run.nonce
           /\ run.digest = keccak_f800_long(run.header_hash, run.seed, run.result)
           /\ run.result_bytes = Bytes32(run.result)
           /\ \A b \in 0..31 :
                  run.result_bytes[b] = ByteOf(run.result[b \div 4], b % 4)

\* a call in a later epoch has returned after all its progpow_loop calls
C4_Returned ==
    /\ run.pc = "done"
    /\ run.i = MemIters
    /\ run.block_number >= ETHASH_EPOCH_LENGTH
    /\ run.loop_seed = U64(ETHASH_EPOCH_LENGTH)
    /\ run.long_nonce = run.seed
    /\ run.seed # run.nonce
    /\ run.digest = keccak_f800_long(run.header_hash, run.seed, run.result)

(***************************************************************************)
(* SpecPair: two calls of progpow_light, step for step, whose inputs       *)
(* differ in the block number only                                         *)
(***************************************************************************)
InitPair ==
    /\ \E h \in Headers, n \in Nonces, sz \in Sizes, c \in Caches :
       \E bn \in BlockNumbers, bnB \in BlockNumbers :
           /\ bn < bnB
           /\ run = NewRun(h, n, sz, bn, c)
           /\ runB = NewRun(h, n, sz, bnB, c)
    /\ pass = Idle
    /\ loop = Idle
    /\ kec = Idle

BothStep ==
    /\ Running(run)
    /\ run' = RunStep(run)
    /\ runB' = RunStep(runB)
    /\ UNCHANGED <<pass, loop, kec>>

NextPair == BothStep

SpecPair == InitPair /\ [][NextPair]_vars

SameEpoch(a, b) == a \div ETHASH_EPOCH_LENGTH = b \div ETHASH_EPOCH_LENGTH

\* C2: progpow_light depends on block_number through epoch_start only: the
\* Keccak-derived seed is the same whatever the block number, and two calls
\* with equal header_hash, nonce, dataset size and cache whose block numbers
\* lie in the same epoch return identical (digest, result)
C2_EpochOnly ==
    (/\ run.header_hash = runB.header_hash
     /\ run.nonce = runB.nonce
     /\ run.size = runB.size
     /\ run.cache = runB.cache)
        => /\ run.seed = runB.seed
           /\ (/\ run.pc = "done"
               /\ runB.pc = "done"
               /\ SameEpoch(run.block_number, runB.block_number))
                  => /\ run.digest = runB.digest
                     /\ run.result_bytes = runB.result_bytes

\* two calls for different blocks of one epoch have returned the same pair
C2_SameEpochReturned ==
    /\ run.pc = "done"
    /\ runB.pc = "done"
    /\ run.block_number # runB.block_number
    /\ SameEpoch(run.block_number, runB.block_number)
    /\ run.seed = runB.seed
    /\ run.seed # <<ZERO, ZERO>>
    /\ run.digest = runB.digest
    /\ run.result_bytes = runB.result_bytes

(***************************************************************************)
(* SpecLane: one lane pass of progpow_loop, a step of the body at a time.  *)
(* The pass starts from a mix filled by fill_mix and a primed c_dag, as    *)
(* the first progpow_loop call of progpow_light finds them.                *)
(***************************************************************************)
MaxEpoch == 2

\* the seed the mix was filled from (0x0123456789abcdef)
MixSeed == <<<<291, 17767>>, <<35243, 52719>>>>

\* the seed argument of progpow_loop: epoch starts, and the largest u64
LaneSeeds ==
    {U64(ETHASH_EPOCH_LENGTH * x) : x \in 0..MaxEpoch}
        \cup {<<<<65535, 65535>>, <<65535, 65535>>>>}

\* the first and the last lane
PassLanes == {0, PROGPOW_LANES - 1}

\* the pass of lane l in the call progpow_loop(seed, loopp, mix, c_dag, lookup, data_size)
NewPass(seed, l, loopp, mix, cache, data_size) ==
    [s |-> PassStart, seed |-> seed, l |-> l, mix |-> mix, c_dag |-> PrimedDag(cache),
     data64 |-> Data64(OffsetG(mix, loopp, data_size), l, cache)]

\* the pass p after a step that left n.mix and n.s
Stepped(p, n) == [p EXCEPT !.mix = n.mix, !.s = n.s]

InitLane ==
    /\ \E seed \in LaneSeeds, l \in PassLanes :
           pass = NewPass(seed, l, 0, FilledMix(MixSeed), 1, 2)
    /\ run = Idle
    /\ runB = Idle
    /\ loop = Idle
    /\ kec = Idle

PassInit ==
    /\ pass.s.pc = "init"
    /\ pass' = [pass EXCEPT !.s = InitBegin(pass.s, pass.seed)]
    /\ UNCHANGED <<run, runB, loop, kec>>

PassFY ==
    /\ pass.s.pc = "fy"
    /\ pass' = [pass EXCEPT !.s = FYStep(pass.s)]
    /\ UNCHANGED <<run, runB, loop, kec>>

PassCache ==
    /\ pass.s.pc = "cache"
    /\ pass' = Stepped(pass, CacheStep(pass.mix, pass.l, pass.s, pass.c_dag))
    /\ UNCHANGED <<run, runB, loop, kec>>

PassMath ==
    /\ pass.s.pc = "math"
    /\ pass' = Stepped(pass, MathStep(pass.mix, pass.l, pass.s))
    /\ UNCHANGED <<run, runB, loop, kec>>

PassLo ==
    /\ pass.s.pc = "lo"
    /\ pass' = Stepped(pass, FinalLo(pass.mix, pass.l, pass.s, pass.data64))
    /\ UNCHANGED <<run, runB, loop, kec>>

PassHi ==
    /\ pass.s.pc = "hi"
    /\ pass' = Stepped(pass, FinalHi(pass.mix, pass.l, pass.s, pass.data64))
    /\ UNCHANGED <<run, runB, loop, kec>>

NextLane == PassInit \/ PassFY \/ PassCache \/ PassMath \/ PassLo \/ PassHi

SpecLane == InitLane /\ [][NextLane]_vars

\* each value of 0..PROGPOW_REGS-1 appears exactly once in seq
IsPermutation(seq) ==
    /\ DOMAIN seq = 0..(PROGPOW_REGS - 1)
    /\ {seq[i] : i \in DOMAIN seq} = 0..(PROGPOW_REGS - 1)

\* C3: mix_seq is a permutation of 0..16 (each of 0..15 exactly once) after the
\* identity initialisation and after every swap of the descending
\* Fisher-Yates loop of progpow_init, for every seed
C3_MixSeqPermutation == IsPermutation(pass.s.mix_seq)

\* the shuffle of the largest seed has finished and moved something
C3_Shuffled ==
    /\ pass.seed = <<<<65535, 65535>>, <<65535, 65535>>>>
    /\ pass.s.pc = "cache"
    /\ pass.s.i = 0
    /\ Len(pass.s.log) = PROGPOW_REGS
    /\ pass.s.mix_seq # InitSeq
    /\ IsPermutation(pass.s.mix_seq)

\* the number of mix_dst() calls that returned entry e of mix_seq
Uses(s, e) == Cardinality({x \in 1..Len(s.dsts) : s.dsts[x] = e})

\* C7 (as the code has it): a lane pass takes 17 merge destinations from
\* mix_seq (8 cache + 8 math + 1 final), mix_seq_cnt ends at 17 and only
\* mix_seq[0] is used once more than the other fifteen entries; the 18 merges
\* write those 17 destinations and, for the low half of data64, register 0
C7_SeventeenDestinations ==
    pass.s.pc = "done" =>
        /\ pass.s.mix_seq_cnt = 17
        /\ Len(pass.s.dsts) = 17
        /\ Uses(pass.s, 0) = 2
        /\ \A e \in 1..(PROGPOW_REGS - 1) : Uses(pass.s, e) = 1
        /\ Len(pass.s.writes) = 18
        /\ pass.s.writes[17] = 0
        /\ \A x \in 1..16 : pass.s.writes[x] = pass.s.mix_seq[pass.s.dsts[x]]
        /\ pass.s.writes[18] = pass.s.mix_seq[pass.s.dsts[17]]

\* C7 as stated: 18 destinations from mix_seq, mix_seq_cnt ends at 18, and
\* mix_seq[0] and mix_seq[1] are each used once more than the other fourteen
C7_EighteenDestinations ==
    pass.s.pc = "done" =>
        /\ pass.s.mix_seq_cnt = 18
        /\ Uses(pass.s, 0) = 2
        /\ Uses(pass.s, 1) = 2
        /\ \A e \in 2..(PROGPOW_REGS - 1) : Uses(pass.s, e) = 1

\* a finished pass whose last destination is not register 0
C7_PassDone ==
    /\ pass.s.pc = "done"
    /\ pass.s.mix_seq_cnt = 17
    /\ Len(pass.s.writes) = 18
    /\ pass.s.mix_seq[0] # 0

\* the purposes of the draws of a whole pass, in the order of lines 98-180
ExpectedRoles ==
    [x \in 1..PROGPOW_REGS |-> "fy"]
        \o [x \in 1..48 |-> <<"src", "r", "src1", "src2", "sel", "r">>[((x - 1) % 6) + 1]]
        \o <<"lo", "hi">>

\* n successive draws from the generator rnd: their values, and the generator
\* they leave
RECURSIVE Stream(_, _)
Stream(rnd, n) ==
    IF n = 0 THEN [rnd |-> rnd, vals |-> <<>>]
    ELSE IF n = 1 THEN With(next_u32(rnd), LAMBDA d : [rnd |-> d.rnd, vals |-> <<d.val>>])
    ELSE With(Stream(rnd, n \div 2), LAMBDA a :
         With(Stream(a.rnd, n - (n \div 2)), LAMBDA b :
             [rnd |-> b.rnd, vals |-> a.vals \o b.vals]))

\* C8: the draws of a lane pass are, in order, the 16 of progpow_init, then
\* for each k the cache step's src and merge selector r and the math step's
\* src1, src2, selector of math and merge selector r, then one r for the low
\* and one for the high half of data64; all come from the one generator
\* progpow_init seeded, each continuing from the state the last left
C8_DrawOrder ==
    /\ Len(pass.s.log) <= Len(ExpectedRoles)
    /\ \A x \in 1..Len(pass.s.log) : pass.s.log[x].role = ExpectedRoles[x]
    /\ [x \in 1..Len(pass.s.log) |-> pass.s.log[x].val]
           = Stream(InitRnd(pass.seed), Len(pass.s.log)).vals
    /\ pass.s.pc = "done" => Len(pass.s.log) = Len(ExpectedRoles)

\* a finished pass: 66 draws, the last for the high half
C8_AllDrawn ==
    /\ pass.s.pc = "done"
    /\ Len(pass.s.log) = 66
    /\ pass.s.log[17].role = "src"
    /\ pass.s.log[21].role = "sel"
    /\ pass.s.log[66].role = "hi"

(***************************************************************************)
(* SpecLoop: one call of progpow_loop whose lane passes run interleaved,   *)
(* a step of one lane at a time, in any order.  ParLanes of the            *)
(* PROGPOW_LANES lanes take part.  Fields of the call:                     *)
(*   mix0        the mix on entry                                          *)
(*   lanes       the pass state of every participating lane                *)
(*   want        the mix the loop at line 147 leaves when it runs the      *)
(*               participating lanes one after the other, in ascending     *)
(*               order                                                     *)
(*   first_done  the lane whose pass finished first                        *)
(*   solo        for every participating lane, the row its pass has        *)
(*               reached when it runs its steps alone on the mix on entry  *)
(***************************************************************************)
ParLanes == 2
MaxLoopp == 1

LoopLanes == 0..(ParLanes - 1)

\* the loop at line 147 over the participating lanes, in ascending order
SeqLanes(mix, seed, c_dag, offset_g, cache) ==
    ForRange(LAMBDA m, l : LanePass(m, l, seed, c_dag, offset_g, cache), mix, 0, ParLanes)

NewLoop(seed, loopp, mix, cache, data_size) ==
    [pc |-> "begin", seed |-> seed, loopp |-> loopp, cache |-> cache,
     data_size |-> data_size, mix0 |-> mix, mix |-> mix, c_dag |-> PrimedDag(cache),
     offset_g |-> 0, lanes |-> [l \in LoopLanes |-> PassStart], want |-> mix,
     first_done |-> -1, solo |-> [l \in LoopLanes |-> mix[l]]]

InitLoop ==
    /\ \E loopp \in 0..MaxLoopp :
           loop = NewLoop(U64(ETHASH_EPOCH_LENGTH), loopp, FilledMix(MixSeed), 1, 2)
    /\ run = Idle
    /\ runB = Idle
    /\ pass = Idle
    /\ kec = Idle

\* lines 144-145, before any lane is processed
BeginStep(c) ==
    With(OffsetG(c.mix, c.loopp, c.data_size), LAMBDA offset_g :
        [c EXCEPT !.offset_g = offset_g,
                  !.want = SeqLanes(c.mix, c.seed, c.c_dag, offset_g, c.cache),
                  !.pc = "lanes"])

LoopBegin ==
    /\ loop.pc = "begin"
    /\ loop' = BeginStep(loop)
    /\ UNCHANGED <<run, runB, pass, kec>>

\* lines 150-153 for lane l: the call of progpow_init
LaneInitOf(c, l) == [c EXCEPT !.lanes[l] = progpow_init(c.lanes[l], c.seed)]

LaneInit ==
    /\ loop.pc = "lanes"
    /\ \E l \in LoopLanes :
           /\ loop.lanes[l].pc = "init"
           /\ loop' = LaneInitOf(loop, l)
    /\ UNCHANGED <<run, runB, pass, kec>>

\* the call c after lane l's step left n.mix and n.s, the same step taken
\* alone leaving the row alone
LaneStepped(c, l, n, alone) ==
    [c EXCEPT !.mix = n.mix, !.lanes[l] = n.s, !.solo[l] = alone,
              !.first_done = IF n.s.pc = "done" /\ c.first_done = -1 THEN l ELSE @]

\* lane l's step at its position, on the given mix
LaneStepOn(c, l, mix) ==
    LaneStep(mix, l, c.lanes[l], c.seed, c.c_dag, Data64(c.offset_g, l, c.cache))

\* one cache step, math step or final merge of lane l
LaneAdvanceOf(c, l) ==
    LaneStepped(c, l, LaneStepOn(c, l, c.mix),
                LaneStepOn(c, l, [c.mix0 EXCEPT ![l] = c.solo[l]]).mix[l])

LaneAdvance ==
    /\ loop.pc = "lanes"
    /\ \E l \in LoopLanes :
           /\ loop.lanes[l].pc \notin {"init", "done"}
           /\ loop' = LaneAdvanceOf(loop, l)
    /\ UNCHANGED <<run, runB, pass, kec>>

\* every pass has finished: progpow_loop returns
LoopEnd ==
    /\ loop.pc = "lanes"
    /\ \A l \in LoopLanes : loop.lanes[l].pc = "done"
    /\ loop' = [loop EXCEPT !.pc = "done"]
    /\ UNCHANGED <<run, runB, pass, kec>>

NextLoop == LoopBegin \/ LaneInit \/ LaneAdvance \/ LoopEnd

SpecLoop == InitLoop /\ [][NextLoop]_vars

\* C5: the lane passes of one progpow_loop call are data-independent: the
\* pass of lane l reads and writes row mix[l] only (a row whose pass has not
\* started, or takes no part, is as on entry), offset_g is fixed before any
\* lane runs, every row is at each moment what its own pass alone has made
\* of it, and whatever the order or interleaving of the passes the final mix
\* is the one the sequential order leaves
C5_LanesIndependent ==
    loop.pc \in {"lanes", "done"} =>
        /\ loop.offset_g = OffsetG(loop.mix0, loop.loopp, loop.data_size)
        /\ \A x \in 0..(PROGPOW_LANES - 1) :
               (IF x \in LoopLanes THEN loop.lanes[x].writes = <<>> ELSE TRUE)
                   => loop.mix[x] = loop.mix0[x]
        /\ \A l \in LoopLanes : loop.mix[l] = loop.solo[l]
        /\ (\A l \in LoopLanes : loop.lanes[l].pc = "done") => loop.mix = loop.want

\* the call has returned, its last lane having finished first, and every
\* participating row was rewritten
C5_OutOfOrder ==
    /\ loop.pc = "done"
    /\ loop.first_done = ParLanes - 1
    /\ loop.mix = loop.want
    /\ \A l \in LoopLanes : loop.mix[l] # loop.mix0[l]

(***************************************************************************)
(* SpecKeccak: one call of keccak_f800_short or keccak_f800_long, a round  *)
(* at a time, side by side with the same call on a second result array.    *)
(* Fields of the call:                                                     *)
(*   fn            "short" or "long"                                       *)
(*   st, r         the state words and the loop variable                   *)
(*   rounds        the round index of every keccak_f800_round so far       *)
(*   stB, outB     the state and return value for resultB                  *)
(***************************************************************************)
MaxRes == 1

\* result arrays; the second differs from the first in words 4..7 only
ResultA(x) == Eval([i \in 0..7 |-> U32(77 * i + x)])
ResultB(x) == Eval([i \in 0..7 |-> U32(IF i < 4 THEN 77 * i + x ELSE 77 * i + x + 1000)])

NewKeccak(fn, header_hash, nonce, result, resultB) ==
    [pc |-> "load", fn |-> fn, header_hash |-> header_hash, nonce |-> nonce,
     result |-> result, resultB |-> resultB, st |-> Zeros(25), stB |-> Zeros(25),
     r |-> 0, rounds |-> <<>>, out |-> <<>>, outB |-> <<>>]

InitKeccak ==
    /\ \E fn \in {"short", "long"}, h \in Headers, n \in Nonces, x \in 0..MaxRes :
           kec = NewKeccak(fn, h, n, ResultA(x), ResultB(x))
    /\ run = Idle
    /\ runB = Idle
    /\ pass = Idle
    /\ loop = Idle

\* lines 238-252 and 263-277
KLoad ==
    /\ kec.pc = "load"
    /\ kec' = [kec EXCEPT !.st = KeccakState(kec.header_hash, kec.nonce, kec.result),
                          !.stB = KeccakState(kec.header_hash, kec.nonce, kec.resultB),
                          !.r = 0, !.pc = "rounds"]
    /\ UNCHANGED <<run, runB, pass, loop>>

\* lines 254-256 and 279-281: one iteration of `for r in 0..21`
KRound ==
    /\ kec.pc = "rounds"
    /\ kec' = [kec EXCEPT !.st = keccak_f800_round(kec.st, kec.r),
                          !.stB = keccak_f800_round(kec.stB, kec.r),
                          !.rounds = Append(@, kec.r),
                          !.r = kec.r + 1,
                          !.pc = IF kec.r + 1 < ROUND_LOOP_END THEN "rounds" ELSE "last"]
    /\ UNCHANGED <<run, runB, pass, loop>>

\* lines 257 and 282
KLast ==
    /\ kec.pc = "last"
    /\ kec' = [kec EXCEPT !.st = keccak_f800_round(kec.st, LAST_ROUND),
                          !.stB = keccak_f800_round(kec.stB, LAST_ROUND),
                          !.rounds = Append(@, LAST_ROUND),
                          !.pc = "out"]
    /\ UNCHANGED <<run, runB, pass, loop>>

\* lines 259 and 284-286
KOutOf(fn, st) == IF fn = "short" THEN ShortOut(st) ELSE LongOut(st)

KOut ==
    /\ kec.pc = "out"
    /\ kec' = [kec EXCEPT !.out = KOutOf(kec.fn, kec.st),
                          !.outB = KOutOf(kec.fn, kec.stB),
                          !.pc = "done"]
    /\ UNCHANGED <<run, runB, pass, loop>>

NextKeccak == KLoad \/ KRound \/ KLast \/ KOut

SpecKeccak == InitKeccak /\ [][NextKeccak]_vars

\* C9: a call of keccak_f800_short or keccak_f800_long applies
\* keccak_f800_round exactly 22 times, with the round indices 0, 1, ..., 21
\* in ascending order, each once; constants 22 and 23 of KECCAKF_RNDC are
\* never read
C9_TwentyTwoRounds ==
    /\ Len(kec.rounds) <= 22
    /\ \A x \in 1..Len(kec.rounds) : kec.rounds[x] = x - 1
    /\ kec.pc \in {"out", "done"} => Len(kec.rounds) = 22
    /\ Len(KECCAKF_RNDC) = 24
    /\ kec.pc = "done" =>
           kec.out = IF kec.fn = "short"
                     THEN keccak_f800_short(kec.header_hash, kec.nonce, kec.result)
                     ELSE keccak_f800_long(kec.header_hash, kec.nonce, kec.result)

\* a call of keccak_f800_long has returned after rounds 0..21
C9_LongReturned ==
    /\ kec.pc = "done"
    /\ kec.fn = "long"
    /\ kec.rounds = [x \in 1..22 |-> x - 1]

\* C10: keccak_f800_long loads result[0..4] only, so two calls that agree on
\* header_hash, nonce and result[0..4] return the same digest, whatever
\* result[4..8] holds, although the result bytes progpow_light returns differ
C10_DigestFromFourWords ==
    (/\ kec.pc = "done"
     /\ kec.fn = "long"
     /\ \A i \in 0..3 : kec.result[i] = kec.resultB[i]
     /\ kec.result # kec.resultB)
        => /\ kec.out = kec.outB
           /\ Bytes32(kec.result) # Bytes32(kec.resultB)

\* two digests of result arrays that differ in words 4..7
C10_TwoDigests ==
    /\ kec.pc = "done"
    /\ kec.fn = "long"
    /\ \A i \in 0..3 : kec.result[i] = kec.resultB[i]
    /\ \A i \in 4..7 : kec.result[i] # kec.resultB[i]
    /\ kec.out = kec.outB
    /\ kec.out # Bytes32(Zeros(8))

=============================================================================
